---- MODULE Spec2Model ----
(***************************************************************************)
(* Model of weather/weather.py: the request executor                       *)
(* (make_weather_request) and the two tools built on it (get_alerts,       *)
(* get_forecast).                                                          *)
(*                                                                         *)
(* Python values.  A dict is a function whose domain is its set of keys    *)
(* (the empty dict is <<>>), a list is a sequence, a str is a string.      *)
(* The value make_weather_request hands back is tagged, because it can be  *)
(* None, a dict or a list:  [tag |-> "None"], [tag |-> "dict", val |-> d], *)
(* [tag |-> "list", val |-> s].                                            *)
(*                                                                         *)
(* Text.  The text a tool returns is kept field by field: a record whose   *)
(* fields are the strings the f-string interpolates, in the layout of the  *)
(* source.  The two failure sentences are kept as the whole string.        *)
(*                                                                         *)
(* Time.  A Unix timestamp counts slots of 24/SlotsPerDay hours since the  *)
(* epoch, and local time is UTC.                                           *)
(***************************************************************************)
EXTENDS Integers, Sequences, FiniteSets, TLC

VARIABLES pc, op, args, request, response, log, weather_data,
          forecasts_by_day, result

vars == <<pc, op, args, request, response, log, weather_data,
          forecasts_by_day, result>>

(***************************************************************************)
(* Bounds of the model.                                                    *)
(***************************************************************************)
\* longest forecast series built from entries with missing parts
MaxDefectLen == 2
\* longest forecast series built from complete entries of two dates
MaxBucketLen == 5

(***************************************************************************)
(* Program constants.                                                      *)
(***************************************************************************)
OPENWEATHER_API_BASE == "https://api.openweathermap.org/data/2.5"
API_KEY == "d0716f49e52c54dcebeafde7ccf9b9cd"
\* list(forecasts_by_day.items())[:5]
MaxDays == 5
\* items[:4]
MaxHourly == 4
\* timestamps per calendar date (the scale of fromtimestamp in the model)
SlotsPerDay == 3

(***************************************************************************)
(* Python helpers.                                                         *)
(***************************************************************************)
PyNone == [tag |-> "None"]
PyDict(d) == [tag |-> "dict", val |-> d]
PyList(s) == [tag |-> "list", val |-> s]

\* bool(v) of a tagged value: None, {} and [] are falsy
Truthy(v) == v.tag # "None" /\ DOMAIN v.val # {}

Has(d, k) == k \in DOMAIN d

\* d.get(k, default)
Get(d, k, default) == IF Has(d, k) THEN d[k] ELSE default

\* str(n) of an int
Str(n) == ToString(n)

TwoDigits(n) == IF n < 10 THEN "0" \o ToString(n) ELSE ToString(n)

\* The sets an optional key ranges over: missing, or present with a value of S
Opt(k, S) == {<<>>} \cup {k :> v : v \in S}

\* d restricted to the keys of K
Restrict(d, K) == [k \in (DOMAIN d) \cap K |-> d[k]]

\* every sub-dict of d that drops at most one key or keeps at most one key
SubDicts(d) ==
  {Restrict(d, K) : K \in {K \in SUBSET DOMAIN d :
        Cardinality(K) <= 1 \/ Cardinality(K) >= Cardinality(DOMAIN d) - 1}}

SeqsUpTo(S, n) == UNION {[1..k -> S] : k \in 0..n}

(***************************************************************************)
(* datetime.datetime.fromtimestamp(t).strftime(...)                        *)
(***************************************************************************)
\* strftime('%Y-%m-%d')
DateOf(t) == "1970-01-" \o TwoDigits(1 + (t \div SlotsPerDay))

\* strftime('%H:%M')
TimeOf(t) == TwoDigits((t % SlotsPerDay) * (24 \div SlotsPerDay)) \o ":00"

\* format_unix_time: strftime('%Y-%m-%d %H:%M:%S')
format_unix_time(t) == DateOf(t) \o " " \o TimeOf(t) \o ":00"

(***************************************************************************)
(* The outbound call.  An outcome of client.get is a response (a status    *)
(* and a body that is JSON or not) or an exception of the transport.       *)
(***************************************************************************)
HttpResponse(status, isJson, doc) ==
  [kind |-> "response", status |-> status, json |-> isJson, doc |-> doc]

TransportFailures ==
  {[kind |-> "connect_error"], [kind |-> "timeout"]}

\* the body the provider sends with a non-success status
ErrorBody == PyDict([cod |-> "404", message |-> "city not found"])

ErrorStatuses == {401, 404, 429, 500}

\* outcomes that are not a success status with a parseable body
FailureOutcomes ==
  TransportFailures
    \cup {HttpResponse(s, TRUE, ErrorBody) : s \in ErrorStatuses}
    \cup {HttpResponse(200, FALSE, PyNone)}

\* response.raise_for_status()
IsSuccess(status) == status \in 200..299

\* mutant: raise_for_status() is not called
make_weather_request_unchecked(outcome) ==
  IF outcome.kind # "response" THEN PyNone
  ELSE IF ~outcome.json THEN PyNone
  ELSE outcome.doc

\* make_weather_request: what the try block returns, None from the except
make_weather_request(outcome) ==
  IF outcome.kind # "response" THEN PyNone
  ELSE IF ~IsSuccess(outcome.status) THEN PyNone
  ELSE IF ~outcome.json THEN PyNone
  ELSE outcome.doc

\* print(f"Error: {e}") runs exactly in the except branch
Diagnostic(outcome) ==
  IF outcome.kind # "response" THEN "Error: " \o outcome.kind
  ELSE IF ~IsSuccess(outcome.status) THEN "Error: status " \o Str(outcome.status)
  ELSE IF ~outcome.json THEN "Error: malformed JSON"
  ELSE ""

\* the GET the executor sends: url and params with the credential injected
Request(endpoint, params) ==
  [url |-> OPENWEATHER_API_BASE \o "/" \o endpoint,
   params |-> params @@ ("appid" :> API_KEY)]

(***************************************************************************)
(* What a tool hands to its caller.                                        *)
(***************************************************************************)
NoResult == [kind |-> "none"]
Raised(e) == [kind |-> "raise", error |-> e]
Sentence(s) == [kind |-> "return", shape |-> "sentence", text |-> s]

(***************************************************************************)
(* get_alerts                                                              *)
(***************************************************************************)
Cities == {"London", "Tokyo"}
CountryCodes == {"", "GB"}

\* mutant: the country code is dropped from the location
LocationCityOnly(city, country_code) == city

\* location = city, or f"{city},{country_code}" when a country code is given
Location(city, country_code) ==
  IF country_code # "" THEN city \o "," \o country_code ELSE city

AlertsParams(location) == [q |-> location, units |-> "metric"]

AlertsFailure(location) ==
  Sentence("Unable to fetch data for location: " \o location)

\* f"{d.get(k, default)}" for a key that holds a number
GetNum(d, k, default) == IF Has(d, k) THEN Str(d[k]) ELSE default

\* format_unix_time(sys.get(k, 0)) if k in sys else "N/A"
SunTime(sys, k) ==
  IF Has(sys, k) THEN format_unix_time(Get(sys, k, 0)) ELSE "N/A"

\* the f-string of get_alerts, one field per interpolation
AlertsReport(weather_doc, location, weather, main, wind, sys) ==
  [kind |-> "return", shape |-> "current",
   name |-> Get(weather_doc, "name", location),
   country |-> Get(sys, "country", ""),
   weather_main |-> Get(weather, "main", "Unknown"),
   description |-> Get(weather, "description", "Unknown"),
   temp |-> GetNum(main, "temp", "N/A"),
   feels_like |-> GetNum(main, "feels_like", "N/A"),
   temp_min |-> GetNum(main, "temp_min", "N/A"),
   temp_max |-> GetNum(main, "temp_max", "N/A"),
   humidity |-> GetNum(main, "humidity", "N/A"),
   pressure |-> GetNum(main, "pressure", "N/A"),
   wind_speed |-> GetNum(wind, "speed", "N/A"),
   wind_deg |-> GetNum(wind, "deg", "N/A"),
   sunrise |-> SunTime(sys, "sunrise"),
   sunset |-> SunTime(sys, "sunset")]

\* weather_data.get("weather", [{}])
ConditionList(weather_doc) == Get(weather_doc, "weather", << <<>> >>)

\* the body of get_alerts after the await
get_alerts(city, country_code, data) ==
  LET location == Location(city, country_code) IN
  IF ~Truthy(data) THEN AlertsFailure(location)
  ELSE IF data.tag # "dict" THEN Raised("AttributeError")
  ELSE IF Len(ConditionList(data.val)) = 0 THEN Raised("IndexError")
  ELSE AlertsReport(data.val, location,
                    ConditionList(data.val)[1],
                    Get(data.val, "main", <<>>),
                    Get(data.val, "wind", <<>>),
                    Get(data.val, "sys", <<>>))

\* a current-weather document with every part present
FullCondition == [main |-> "Rain", description |-> "light rain"]
FullMain == [temp |-> 15, feels_like |-> 14, temp_min |-> 13, temp_max |-> 17,
             humidity |-> 80, pressure |-> 1012]
FullWind == [speed |-> 4, deg |-> 270]
FullSys == [country |-> "GB", sunrise |-> 1, sunset |-> 2]

\* parsed bodies that are no dict, or no non-empty one
OddDocs == {PyNone, PyList(<<>>), PyList(<<1>>)}

\* current-weather documents with any of the optional parts missing
AlertsDocs ==
  {PyDict(n @@ w @@ m @@ wi @@ s) :
     n \in Opt("name", {"London"}),
     w \in Opt("weather", {<<>>} \cup {<<c>> : c \in SubDicts(FullCondition)}),
     m \in Opt("main", SubDicts(FullMain)),
     wi \in Opt("wind", SubDicts(FullWind)),
     s \in Opt("sys", SubDicts(FullSys))}

AlertsOutcomes ==
  FailureOutcomes \cup {HttpResponse(200, TRUE, d) : d \in AlertsDocs \cup OddDocs}

(***************************************************************************)
(* get_forecast                                                            *)
(***************************************************************************)
\* latitude and longitude, in tenths of a degree
Coordinates == {<<515, -1>>, <<357, 1397>>}

Abs(n) == IF n < 0 THEN -n ELSE n

\* the integer nearest to n/d (n >= 0, d > 0), a tie going to the even one
RoundHalfEven(n, d) ==
  LET q == n \div d
      r == n % d
  IN IF 2 * r < d THEN q
     ELSE IF 2 * r > d THEN q + 1
     ELSE IF q % 2 = 0 THEN q ELSE q + 1

\* f"{n/d:.1f}"
Fixed1(n, d) ==
  LET t == RoundHalfEven(10 * Abs(n), d)
  IN (IF n < 0 THEN "-" ELSE "") \o Str(t \div 10) \o "." \o Str(t % 10)

\* f"{n/d:.0f}"
Fixed0(n, d) ==
  (IF n < 0 THEN "-" ELSE "") \o Str(RoundHalfEven(Abs(n), d))

\* f"{x}" of a float given in tenths
FloatStr(tenths) == Fixed1(tenths, 10)

ForecastParams(latitude, longitude) ==
  [lat |-> latitude, lon |-> longitude, units |-> "metric"]

ForecastFailure(latitude, longitude) ==
  Sentence("Unable to fetch forecast data for location at coordinates: "
           \o FloatStr(latitude) \o ", " \o FloatStr(longitude))

\* forecast_data.get("list", [])
ForecastList(forecast_doc) == Get(forecast_doc, "list", <<>>)

\* mutant: the item is put at the front of its bucket
AddToDayPrepend(by_day, item) ==
  LET date == DateOf(item.dt) IN
  IF \E i \in 1..Len(by_day) : by_day[i].date = date
    THEN [i \in 1..Len(by_day) |->
            IF by_day[i].date = date
              THEN [by_day[i] EXCEPT !.items = <<item>> \o @]
              ELSE by_day[i]]
    ELSE Append(by_day, [date |-> date, items |-> <<item>>])

\* the loop body of the grouping: the bucket of the item's date gets the item
\* appended, a date not seen yet gets a new bucket at the end
AddToDay(by_day, item) ==
  LET date == DateOf(item.dt) IN
  IF \E i \in 1..Len(by_day) : by_day[i].date = date
    THEN [i \in 1..Len(by_day) |->
            IF by_day[i].date = date
              THEN [by_day[i] EXCEPT !.items = Append(@, item)]
              ELSE by_day[i]]
    ELSE Append(by_day, [date |-> date, items |-> <<item>>])

RECURSIVE GroupByDay(_, _)
GroupByDay(items, by_day) ==
  IF items = <<>> THEN by_day
  ELSE GroupByDay(Tail(items), AddToDay(by_day, Head(items)))

\* index of the first item whose item["dt"] raises KeyError, else Len + 1
FirstUntimed(items) ==
  IF \E i \in 1..Len(items) : ~Has(items[i], "dt")
    THEN CHOOSE i \in 1..Len(items) :
           /\ ~Has(items[i], "dt")
           /\ \A j \in 1..(i - 1) : Has(items[j], "dt")
    ELSE Len(items) + 1

\* forecasts_by_day when the grouping loop ends or raises
Grouping(items) == GroupByDay(SubSeq(items, 1, FirstUntimed(items) - 1), <<>>)

\* mutant: the dates are sorted before the limit is applied
KeptDaysSorted(by_day) ==
  LET sorted == SortSeq(by_day, LAMBDA a, b : a.items[1].dt < b.items[1].dt)
  IN SubSeq(sorted, 1, IF Len(sorted) < MaxDays THEN Len(sorted) ELSE MaxDays)

\* list(forecasts_by_day.items())[:5]
KeptDays(by_day) ==
  SubSeq(by_day, 1, IF Len(by_day) < MaxDays THEN Len(by_day) ELSE MaxDays)

\* items[:4]
Listed(items) ==
  SubSeq(items, 1, IF Len(items) < MaxHourly THEN Len(items) ELSE MaxHourly)

\* mutant: the first entry of the bucket stands for the day
MiddleItemFirst(items) == items[1]

\* items[len(items)//2]
MiddleItem(items) == items[(Len(items) \div 2) + 1]

RECURSIVE SumOf(_, _, _)
\* sum(item[block][field] for item in items)
SumOf(items, block, field) ==
  IF items = <<>> THEN 0
  ELSE Head(items)[block][field] + SumOf(Tail(items), block, field)

\* min(item["main"]["temp_min"] for item in items)
MinTemp(items) ==
  CHOOSE m \in {items[i].main.temp_min : i \in 1..Len(items)} :
    \A i \in 1..Len(items) : m <= items[i].main.temp_min

\* max(item["main"]["temp_max"] for item in items)
MaxTemp(items) ==
  CHOOSE m \in {items[i].main.temp_max : i \in 1..Len(items)} :
    \A i \in 1..Len(items) : m >= items[i].main.temp_max

\* the representative description of a day
WeatherDesc(items) ==
  LET middle_item == MiddleItem(items) IN
  IF Has(middle_item, "weather") /\ middle_item.weather # <<>>
    THEN middle_item.weather[1].description
    ELSE "Unknown"

\* mutant: a description is shown only from the second condition on
HourlyLineSecondCondition(item) ==
  [time |-> TimeOf(item.dt),
   temp |-> Fixed1(item.main.temp, 1),
   weather |-> IF Len(item.weather) > 1 THEN item.weather[1].description
               ELSE "Unknown"]

\* one line of the hourly details
HourlyLine(item) ==
  [time |-> TimeOf(item.dt),
   temp |-> Fixed1(item.main.temp, 1),
   weather |-> IF item.weather # <<>> THEN item.weather[1].description
               ELSE "Unknown"]

\* mutant: the aggregates are taken over the listed entries only
DayBlockOfListed(date, items) ==
  [date |-> date,
   min_temp |-> Fixed1(MinTemp(Listed(items)), 1),
   max_temp |-> Fixed1(MaxTemp(Listed(items)), 1),
   weather_desc |-> WeatherDesc(items),
   avg_humidity |-> Fixed0(SumOf(Listed(items), "main", "humidity"), Len(Listed(items))),
   avg_wind |-> Fixed1(SumOf(Listed(items), "wind", "speed"), Len(Listed(items))),
   hourly |-> [i \in 1..Len(Listed(items)) |-> HourlyLine(Listed(items)[i])]]

\* one day block of the report
DayBlock(date, items) ==
  [date |-> date,
   min_temp |-> Fixed1(MinTemp(items), 1),
   max_temp |-> Fixed1(MaxTemp(items), 1),
   weather_desc |-> WeatherDesc(items),
   avg_humidity |-> Fixed0(SumOf(items, "main", "humidity"), Len(items)),
   avg_wind |-> Fixed1(SumOf(items, "wind", "speed"), Len(items)),
   hourly |-> [i \in 1..Len(Listed(items)) |-> HourlyLine(Listed(items)[i])]]

\* item[block][field] raises KeyError
Lacks(item, block, field) ==
  ~Has(item, block) \/ ~Has(item[block], field)

\* the day block of these items raises KeyError at one of its subscripts
DayRaises(items) ==
  \/ \E i \in 1..Len(items) :
       \/ Lacks(items[i], "main", "temp_min")
       \/ Lacks(items[i], "main", "temp_max")
       \/ Lacks(items[i], "main", "humidity")
       \/ Lacks(items[i], "wind", "speed")
  \/ LET middle_item == MiddleItem(items) IN
       /\ Has(middle_item, "weather")
       /\ middle_item.weather # <<>>
       /\ ~Has(middle_item.weather[1], "description")
  \/ \E i \in 1..Len(Listed(items)) :
       \/ Lacks(items[i], "main", "temp")
       \/ ~Has(items[i], "weather")
       \/ /\ items[i].weather # <<>>
          /\ ~Has(items[i].weather[1], "description")

\* the report get_forecast returns
ForecastReport(forecast_doc, by_day) ==
  LET city == Get(forecast_doc, "city", <<>>)
      kept == KeptDays(by_day)
  IN [kind |-> "return", shape |-> "forecast",
      city_name |-> Get(city, "name", "Unknown Location"),
      country |-> Get(city, "country", ""),
      days |-> [i \in 1..Len(kept) |-> DayBlock(kept[i].date, kept[i].items)]]

\* the body of get_forecast after the await
get_forecast(latitude, longitude, data) ==
  IF ~Truthy(data) THEN ForecastFailure(latitude, longitude)
  ELSE IF data.tag # "dict" THEN Raised("AttributeError")
  ELSE LET items == ForecastList(data.val)
           by_day == Grouping(items)
       IN IF FirstUntimed(items) <= Len(items) THEN Raised("KeyError")
          ELSE IF \E i \in 1..Len(KeptDays(by_day)) : DayRaises(by_day[i].items)
            THEN Raised("KeyError")
          ELSE ForecastReport(data.val, by_day)

\* forecasts_by_day as get_forecast leaves it (nothing before the grouping)
get_forecast_by_day(data) ==
  IF Truthy(data) /\ data.tag = "dict"
    THEN Grouping(ForecastList(data.val))
    ELSE <<>>

(***************************************************************************)
(* Forecast documents the provider can answer with.                        *)
(***************************************************************************)
\* the readings of the three slots of a date; the odd dates are colder
SlotTempMin == <<10, 12, 9>>
SlotTempMax == <<20, 22, 21>>
SlotTemp == <<15, 17, 14>>
SlotHumidity == <<50, 60, 70>>
SlotWind == <<1, 2, 3>>
SlotDescription == <<"clear sky", "light rain", "few clouds">>

Chill(t) == IF (t \div SlotsPerDay) % 2 = 1 THEN 15 ELSE 0

\* a forecast entry with every part present, timestamped t
Complete(t) ==
  LET k == (t % SlotsPerDay) + 1 IN
  [dt |-> t,
   main |-> [temp |-> SlotTemp[k] - Chill(t),
             temp_min |-> SlotTempMin[k] - Chill(t),
             temp_max |-> SlotTempMax[k] - Chill(t),
             humidity |-> SlotHumidity[k]],
   wind |-> [speed |-> SlotWind[k]],
   weather |-> <<[description |-> SlotDescription[k]]>>]

\* entries of one date with any of their parts missing
DefectEntries ==
  {a @@ b @@ c @@ d :
     a \in Opt("dt", {1}),
     b \in Opt("main", {Complete(1).main}),
     c \in Opt("wind", {Complete(1).wind}),
     d \in Opt("weather", {<<>>, Complete(1).weather})}


\* a complete entry whose condition has no description
Undescribed == [Complete(1) EXCEPT !.weather = << <<>> >>]

\* complete entries of one date and of the start of the next
BucketEntries == {Complete(t) : t \in 0..SlotsPerDay}

\* one complete entry per date, the slot varying with the date, for one date
\* more than a report holds
DateEntries == {Complete(d * SlotsPerDay + (d % SlotsPerDay)) : d \in 0..MaxDays}

\* a complete entry without its condition list
Unconditioned == Restrict(Complete(0), {"dt", "main", "wind"})

\* series whose only incomplete entry is beyond the listed ones
LateDefects ==
  {[i \in 1..(MaxHourly + 1) |-> IF i <= MaxHourly THEN Complete(0) ELSE e] :
     e \in {Unconditioned, Undescribed}}

RECURSIVE Orderings(_)
\* every series that holds each entry of S exactly once
Orderings(S) ==
  IF S = {} THEN {<<>>}
  ELSE UNION {{<<e>> \o s : s \in Orderings(S \ {e})} : e \in S}

\* every series over S in which no entry occurs twice
Injective(S) == UNION {Orderings(T) : T \in SUBSET S}

ForecastSeries ==
  SeqsUpTo(DefectEntries, MaxDefectLen)
    \cup SeqsUpTo(BucketEntries, MaxBucketLen)
    \cup Injective(DateEntries)
    \cup LateDefects

FullCity == [name |-> "London", country |-> "GB"]

ForecastDocs ==
  {PyDict(("city" :> FullCity) @@ ("list" :> s)) : s \in ForecastSeries}
    \cup {PyDict(c @@ l) :
            c \in Opt("city", SubDicts(FullCity)),
            l \in Opt("list", {<<>>, <<Complete(0)>>, <<Undescribed>>,
                                <<Complete(0), Undescribed>>})}

ForecastOutcomes ==
  FailureOutcomes \cup {HttpResponse(200, TRUE, d) : d \in ForecastDocs \cup OddDocs}

(***************************************************************************)
(* The server: one tool call at a time, nothing kept between calls.        *)
(***************************************************************************)
Init ==
  /\ pc = "idle"
  /\ op = "none"
  /\ args = <<>>
  /\ request = <<>>
  /\ response = <<>>
  /\ log = ""
  /\ weather_data = PyNone
  /\ forecasts_by_day = <<>>
  /\ result = NoResult

\* a call of the tool get_alerts, from its first line to its return or raise
GetAlerts(city, country_code, outcome) ==
  /\ pc = "idle"
  /\ pc' = "done"
  /\ op' = "get_alerts"
  /\ args' = [city |-> city, country_code |-> country_code]
  /\ request' = Request("weather", AlertsParams(Location(city, country_code)))
  /\ response' = outcome
  /\ log' = Diagnostic(outcome)
  /\ weather_data' = make_weather_request(outcome)
  /\ forecasts_by_day' = <<>>
  /\ result' = get_alerts(city, country_code, make_weather_request(outcome))

\* a call of the tool get_forecast, from its first line to its return or raise
GetForecast(latitude, longitude, outcome) ==
  /\ pc = "idle"
  /\ pc' = "done"
  /\ op' = "get_forecast"
  /\ args' = [latitude |-> latitude, longitude |-> longitude]
  /\ request' = Request("forecast", ForecastParams(latitude, longitude))
  /\ response' = outcome
  /\ log' = Diagnostic(outcome)
  /\ weather_data' = make_weather_request(outcome)
  /\ forecasts_by_day' = get_forecast_by_day(make_weather_request(outcome))
  /\ result' = get_forecast(latitude, longitude, make_weather_request(outcome))

\* the caller has the answer; every local of the call is gone
Return ==
  /\ pc = "done"
  /\ pc' = "idle"
  /\ op' = "none"
  /\ args' = <<>>
  /\ request' = <<>>
  /\ response' = <<>>
  /\ log' = ""
  /\ weather_data' = PyNone
  /\ forecasts_by_day' = <<>>
  /\ result' = NoResult

\* the host calls get_alerts; the network answers with any outcome
AlertsCall ==
  /\ pc = "idle"
  /\ \E city \in Cities, country_code \in CountryCodes, outcome \in AlertsOutcomes :
       GetAlerts(city, country_code, outcome)

\* the host calls get_forecast; the network answers with any outcome
ForecastCall ==
  /\ pc = "idle"
  /\ \E c \in Coordinates, outcome \in ForecastOutcomes :
       GetForecast(c[1], c[2], outcome)

Next == AlertsCall \/ ForecastCall \/ Return

Spec == Init /\ [][Next]_vars

(***************************************************************************)
(* Vocabulary of the properties.                                           *)
(***************************************************************************)
Called(tool) == pc = "done" /\ op = tool

Rendered(shape) == result.kind = "return" /\ result.shape = shape

\* the executor handed back a non-empty dict
GotDocument == weather_data.tag = "dict" /\ DOMAIN weather_data.val # {}

\* the outbound call ended in a success status with a parseable body
Succeeded ==
  /\ response.kind = "response"
  /\ response.status \in 200..299
  /\ response.json

\* the forecast series of the document at hand
Series == ForecastList(weather_data.val)

Timestamped(items) == \A i \in 1..Len(items) : Has(items[i], "dt")

DatesOf(items) == {DateOf(items[i].dt) : i \in 1..Len(items)}

\* the entries of a date, in the order of the series
EntriesOf(items, date) == SelectSeq(items, LAMBDA e : DateOf(e.dt) = date)

\* position in the series of the first entry of a date
FirstSeen(items, date) ==
  CHOOSE k \in 1..Len(items) :
    /\ DateOf(items[k].dt) = date
    /\ \A j \in 1..(k - 1) : DateOf(items[j].dt) # date

Least(a, b) == IF a < b THEN a ELSE b

NoConditions(item) == ~Has(item, "weather") \/ item.weather = <<>>

\* the text of the coordinates of the model
CoordText ==
  (515 :> "51.5") @@ (-1 :> "-0.1") @@ (357 :> "35.7") @@ (1397 :> "139.7")

(***************************************************************************)
(* C1. Whatever the outbound call yields, get_alerts and get_forecast end  *)
(* by returning text; neither ever raises.                                 *)
(***************************************************************************)
C1_NeverRaises == pc = "done" => result.kind = "return"

(***************************************************************************)
(* C2. When the executor returns the absent result, get_alerts returns the *)
(* failure sentence with the requested location (city, or                  *)
(* city,country_code) and get_forecast the failure sentence with the       *)
(* latitude and the longitude; no report, no error.                        *)
(***************************************************************************)
C2_AbsentGivesSentence ==
  (pc = "done" /\ weather_data = PyNone) =>
    /\ op = "get_alerts" =>
         result = [kind |-> "return", shape |-> "sentence",
                   text |-> "Unable to fetch data for location: "
                            \o (IF args.country_code = ""
                                  THEN args.city
                                  ELSE args.city \o "," \o args.country_code)]
    /\ op = "get_forecast" =>
         result = [kind |-> "return", shape |-> "sentence",
                   text |-> "Unable to fetch forecast data for location at coordinates: "
                            \o CoordText[args.latitude] \o ", "
                            \o CoordText[args.longitude]]

C2_Witness ==
  /\ Called("get_alerts")
  /\ response.kind = "timeout"
  /\ weather_data = PyNone
  /\ args.country_code = "GB"
  /\ result.kind = "return"
  /\ result.text = "Unable to fetch data for location: Tokyo,GB"

(***************************************************************************)
(* C3. make_weather_request returns the parsed document on a success       *)
(* status with a parseable body, and the one absent result on a            *)
(* non-success status, a transport failure, a timeout or a malformed body; *)
(* it raises in none of them, and the failures are told apart by nothing   *)
(* the caller receives.                                                    *)
(***************************************************************************)
C3_ExecutorResult ==
  pc = "done" =>
    /\ Succeeded => weather_data = response.doc
    /\ ~Succeeded => /\ weather_data = [tag |-> "None"]
                     /\ Rendered("sentence")

C3_Witness ==
  /\ Called("get_forecast")
  /\ response.kind = "response"
  /\ response.status = 404
  /\ weather_data = PyNone
  /\ Rendered("sentence")

(***************************************************************************)
(* C4. For a well-formed current-weather document with any of the optional *)
(* parts missing, get_alerts renders the full report: 'Unknown' for each   *)
(* missing condition field, 'N/A' for each missing measurement, 'N/A' for  *)
(* sunrise and sunset exactly when the timestamp is missing.               *)
(***************************************************************************)
Part(block) == Get(weather_data.val, block, <<>>)

Condition ==
  IF Has(weather_data.val, "weather") /\ weather_data.val.weather # <<>>
    THEN weather_data.val.weather[1]
    ELSE <<>>

C4_PlaceholdersNeverFail ==
  (Called("get_alerts") /\ GotDocument) =>
    /\ Rendered("current")
    /\ (result.weather_main = "Unknown") <=> ~Has(Condition, "main")
    /\ (result.description = "Unknown") <=> ~Has(Condition, "description")
    /\ (result.temp = "N/A") <=> ~Has(Part("main"), "temp")
    /\ (result.feels_like = "N/A") <=> ~Has(Part("main"), "feels_like")
    /\ (result.temp_min = "N/A") <=> ~Has(Part("main"), "temp_min")
    /\ (result.temp_max = "N/A") <=> ~Has(Part("main"), "temp_max")
    /\ (result.humidity = "N/A") <=> ~Has(Part("main"), "humidity")
    /\ (result.pressure = "N/A") <=> ~Has(Part("main"), "pressure")
    /\ (result.wind_speed = "N/A") <=> ~Has(Part("wind"), "speed")
    /\ (result.wind_deg = "N/A") <=> ~Has(Part("wind"), "deg")
    /\ (result.sunrise = "N/A") <=> ~Has(Part("sys"), "sunrise")
    /\ (result.sunset = "N/A") <=> ~Has(Part("sys"), "sunset")

(***************************************************************************)
(* C5. Grouping a series of N timestamped entries of D distinct dates      *)
(* gives exactly D buckets; every entry is in exactly the bucket of its    *)
(* date; a bucket keeps the order of the series; no bucket is empty; the   *)
(* buckets are in the order their dates first occur.                       *)
(***************************************************************************)
C5_Grouping ==
  (Called("get_forecast") /\ GotDocument /\ Timestamped(Series)) =>
    LET by_day == forecasts_by_day IN
    /\ Len(by_day) = Cardinality(DatesOf(Series))
    /\ \A i \in 1..Len(by_day) :
         /\ by_day[i].date \in DatesOf(Series)
         /\ by_day[i].items = EntriesOf(Series, by_day[i].date)
         /\ by_day[i].items # <<>>
    /\ \A i, j \in 1..Len(by_day) :
         i < j => /\ by_day[i].date # by_day[j].date
                  /\ FirstSeen(Series, by_day[i].date)
                       < FirstSeen(Series, by_day[j].date)

C5_Witness ==
  /\ Called("get_forecast")
  /\ GotDocument
  /\ Series = <<Complete(3), Complete(0), Complete(1), Complete(3)>>
  /\ Len(forecasts_by_day) = 2
  /\ forecasts_by_day[1] = [date |-> "1970-01-02",
                            items |-> <<Complete(3), Complete(3)>>]
  /\ forecasts_by_day[2] = [date |-> "1970-01-01",
                            items |-> <<Complete(0), Complete(1)>>]

(***************************************************************************)
(* C6. Both truncations of get_forecast are prefixes in encounter order,   *)
(* never calendar-sorted: the report holds exactly the first min(5, D)     *)
(* distinct dates in the order they first occur in the series, and every   *)
(* day block lists exactly the first min(4, bucket length) entries of its  *)
(* bucket in their order.                                                  *)
(***************************************************************************)
C6_PrefixTruncation ==
  (Called("get_forecast") /\ Rendered("forecast")) =>
    LET days == result.days IN
    /\ Len(days) = Least(5, Cardinality(DatesOf(Series)))
    /\ \A i \in 1..Len(days) :
         LET bucket == EntriesOf(Series, days[i].date) IN
         /\ days[i].date \in DatesOf(Series)
         /\ Cardinality({DateOf(Series[j].dt) :
                           j \in 1..(FirstSeen(Series, days[i].date) - 1)}) = i - 1
         /\ Len(days[i].hourly) = Least(4, Len(bucket))
         /\ \A m \in 1..Len(days[i].hourly) :
              /\ days[i].hourly[m].time = TimeOf(bucket[m].dt)
              /\ days[i].hourly[m].temp = Fixed1(bucket[m].main.temp, 1)

C6_Witness ==
  /\ Called("get_forecast")
  /\ Rendered("forecast")
  /\ Series = <<Complete(17), Complete(0), Complete(13), Complete(4),
                Complete(9), Complete(8)>>
  /\ [i \in 1..Len(result.days) |-> result.days[i].date]
       = <<"1970-01-06", "1970-01-01", "1970-01-05", "1970-01-02", "1970-01-04">>

\* a bucket longer than the hourly limit is listed up to the limit
C6_HourlyWitness ==
  /\ Called("get_forecast")
  /\ Rendered("forecast")
  /\ Series = <<Complete(2), Complete(0), Complete(1), Complete(1), Complete(0)>>
  /\ [m \in 1..Len(result.days[1].hourly) |-> result.days[1].hourly[m].time]
       = <<"16:00", "00:00", "08:00", "08:00">>

(***************************************************************************)
(* C7. The aggregates of a day block are taken over ALL entries of the     *)
(* day's bucket: the minimum of temp_min, the maximum of temp_max, the     *)
(* mean humidity rounded to the nearest integer, the mean wind speed to    *)
(* one decimal place (temp_min 10,12,9 and temp_max 20,22,21 give 9.0 and  *)
(* 22.0, humidity 50,60,70 gives 60, wind 1.0,2.0,3.0 gives 2.0).          *)
(***************************************************************************)
C7_AggregatesOverBucket ==
  (Called("get_forecast") /\ Rendered("forecast")) =>
    \A i \in 1..Len(result.days) :
      LET day == result.days[i]
          bucket == EntriesOf(Series, day.date)
          n == Len(bucket)
          humidity == SumOf(bucket, "main", "humidity")
          wind == SumOf(bucket, "wind", "speed")
      IN /\ \E a \in 1..n :
              /\ day.min_temp = Fixed1(bucket[a].main.temp_min, 1)
              /\ \A b \in 1..n : bucket[a].main.temp_min <= bucket[b].main.temp_min
         /\ \E a \in 1..n :
              /\ day.max_temp = Fixed1(bucket[a].main.temp_max, 1)
              /\ \A b \in 1..n : bucket[a].main.temp_max >= bucket[b].main.temp_max
         /\ \E k \in 0..100 :
              /\ day.avg_humidity = ToString(k)
              /\ 2 * Abs(k * n - humidity) <= n
         /\ \E t \in 0..99 :
              /\ day.avg_wind = ToString(t \div 10) \o "." \o ToString(t % 10)
              /\ 2 * Abs(t * n - 10 * wind) <= n
         /\ bucket = <<Complete(0), Complete(1), Complete(2)>> =>
              /\ day.min_temp = "9.0"
              /\ day.max_temp = "22.0"
              /\ day.avg_humidity = "60"
              /\ day.avg_wind = "2.0"

\* a bucket of five whose fifth entry moves every aggregate
C7_Witness ==
  /\ Called("get_forecast")
  /\ Rendered("forecast")
  /\ Series = <<Complete(0), Complete(0), Complete(0), Complete(0), Complete(2)>>
  /\ Len(result.days[1].hourly) = 4
  /\ result.days[1].min_temp = "9.0"
  /\ result.days[1].max_temp = "21.0"
  /\ result.days[1].avg_humidity = "54"
  /\ result.days[1].avg_wind = "1.4"

\* the bucket of the spec's example
C7_ExampleWitness ==
  /\ Called("get_forecast")
  /\ Rendered("forecast")
  /\ Series = <<Complete(0), Complete(1), Complete(2)>>
  /\ result.days[1].min_temp = "9.0"
  /\ result.days[1].avg_wind = "2.0"

(***************************************************************************)
(* C8. The representative description of a day block whose bucket has n    *)
(* entries is the description of the first condition of the entry at index *)
(* floor(n/2), and it is 'Unknown' exactly when that entry has no          *)
(* condition list or an empty one.                                         *)
(***************************************************************************)
C8_MiddleDescription ==
  (Called("get_forecast") /\ Rendered("forecast")) =>
    \A i \in 1..Len(result.days) :
      LET bucket == EntriesOf(Series, result.days[i].date)
          middle == bucket[(Len(bucket) \div 2) + 1]
      IN /\ (result.days[i].weather_desc = "Unknown") <=> NoConditions(middle)
         /\ ~NoConditions(middle) =>
              result.days[i].weather_desc = middle.weather[1].description
         /\ bucket = <<Complete(0), Complete(1), Complete(2), Complete(0)>> =>
              result.days[i].weather_desc = "few clouds"
         /\ bucket = <<Complete(1)>> =>
              result.days[i].weather_desc = "light rain"

C8_Witness ==
  /\ Called("get_forecast")
  /\ Rendered("forecast")
  /\ Series = <<Complete(0), Complete(1), Complete(2)>>
  /\ result.days[1].weather_desc = "light rain"

(***************************************************************************)
(* C9. As claimed: when the FIRST entry of a day bucket lacks a condition  *)
(* list, the representative description is 'Unknown', while every hourly   *)
(* line shows 'Unknown' if and only if the condition list of its own entry *)
(* is empty, and its own entry's description otherwise.                    *)
(***************************************************************************)
HourlyLinesIndependent(day, bucket) ==
  \A m \in 1..Len(day.hourly) :
    /\ (day.hourly[m].weather = "Unknown") <=> (Get(bucket[m], "weather", <<>>) = <<>>)
    /\ ~NoConditions(bucket[m]) =>
         day.hourly[m].weather = bucket[m].weather[1].description

C10_ReportIffDocument ==
  pc = "done" =>
    /\ ~Truthy(weather_data) => Rendered("sentence")
    /\ Truthy(weather_data) <=>
         (result.kind = "return" /\ result.shape \in {"current", "forecast"})

\* the part of C10 that is about falsy results only
C10_FalsyGivesSentence ==
  pc = "done" => (~Truthy(weather_data) <=> (result.kind = "return" /\ result.shape = "sentence"))

C10_EmptyDocumentWitness ==
  /\ Called("get_alerts")
  /\ Succeeded
  /\ weather_data = [tag |-> "dict", val |-> <<>>]
  /\ Rendered("sentence")

====
